---- MODULE Spec2Model ----
(***************************************************************************)
(* Model of src/main.go: a withdrawal goroutine (withdraw) running beside  *)
(* the deposit monitor (monitorDeposits), both launched by main.           *)
(*                                                                         *)
(* The model starts at main.go:127, after main has connected and obtained  *)
(* the sender keypair and the receiver key.  The arguments of withdraw     *)
(* (sender, receiver, amount) are drawn from small sets that hold the      *)
(* values main passes (amount 0.1 * LamportsPerSOL) and the edge cases.    *)
(*                                                                         *)
(* Keys, signatures and hashes are short byte sequences (one or two bytes  *)
(* instead of 32 or 64).  The gateway (rpc.Client, ws.Client) is the       *)
(* environment: each call returns either a value or an error.              *)
(***************************************************************************)
EXTENDS Integers, Sequences, FiniteSets, TLC

VARIABLES
    sender,          \* *solana.PrivateKey made by generateKeypair (main.go:121)
    receiverPubKey,  \* solana.PublicKey parsed at main.go:122
    amount,          \* uint64 lamports passed to withdraw (main.go:130)
    exited,          \* TRUE once log.Fatalf has called os.Exit(1)
    logOut,          \* what package log wrote: Fatalf and Printf entries
    stdout,          \* what fmt.Printf wrote
    wpc,             \* position of the withdraw goroutine
    wret,            \* whether withdraw has returned, and the values it returned
    recent,          \* blockhash returned by GetRecentBlockhash
    tx,              \* *solana.Transaction built at main.go:39
    rpcLog,          \* calls made on rpc.Client, each with its reply
    mpc,             \* position of monitorDeposits
    sub,             \* the *ws.AccountSubscription: Nil, "open", "unsubscribed"
    deferred,        \* deferred calls of monitorDeposits (main.go:93)
    wsLog            \* calls made on ws.Client / the subscription, with replies

vars == <<sender, receiverPubKey, amount, exited, logOut, stdout, wpc, wret,
          recent, tx, rpcLog, mpc, sub, deferred, wsLog>>

wvars == <<wpc, wret, recent, tx, rpcLog>>
mvars == <<mpc, sub, deferred, wsLog>>
args  == <<sender, receiverPubKey, amount>>

Nil == "nil"

\* A nil pointer to, or the zero value of, a byte array (a key, hash or signature).
NoBytes == <<>>

\* ---------------------------------------------------------------- bounds
\* Number of Recv calls the monitor makes before the model stops it.
MaxRecv == 3

\* ------------------------------------------------------------- constants
LamportsPerSOL == 1000000000

CommitmentFinalized == "finalized"

\* The System program's id is the all-zero key.
SystemProgramID == <<0>>

\* ------------------------------------------------------------ input sets
\* Private keys: seed followed by the public key derived from it.
PrivKeys == {<<11, 7>>, <<12, 200>>}

\* Receiver keys: a sender's own key (self transfer) and another one.
ReceiverKeys == {<<7>>, <<33>>}

\* The keys a signer may be asked for: the receivers', the senders', the
\* System program's.
PubKeys == ReceiverKeys \cup {<<200>>} \cup {SystemProgramID}

\* 100000000 is uint64(0.1 * LamportsPerSOL), the amount main passes.
Amounts == {0, 100000000}

Blockhashes == {<<1>>, <<2>>}

\* Signatures the gateway may answer a submission with.
Sigs == {<<0, 0>>, <<0, 58>>, <<255, 255>>}

\* Lamport balances carried by account notifications (all below 2^52, where
\* float64(lamports) / LamportsPerSOL printed with %.9f is exact).
Balances == {0, 100000000, 2000000001}

RecvErrors == {"decode", "transport"}

\* ------------------------------------------------------------- utilities
RECURSIVE Dedup(_)
Dedup(s) ==
    IF s = <<>> THEN <<>>
    ELSE LET front == Dedup(SubSeq(s, 1, Len(s) - 1))
             last  == s[Len(s)]
         IN IF \E i \in 1..Len(front) : front[i] = last
            THEN front ELSE Append(front, last)

RECURSIVE Flatten(_)
Flatten(ss) ==
    IF ss = <<>> THEN <<>> ELSE Flatten(SubSeq(ss, 1, Len(ss) - 1)) \o ss[Len(ss)]

Range(s) == {s[i] : i \in 1..Len(s)}

\* ---------------------------------------------------------------- base58
B58Alphabet ==
    <<"1","2","3","4","5","6","7","8","9",
      "A","B","C","D","E","F","G","H","J","K","L","M","N","P","Q","R","S","T",
      "U","V","W","X","Y","Z",
      "a","b","c","d","e","f","g","h","i","j","k","m","n","o","p","q","r","s",
      "t","u","v","w","x","y","z">>

RECURSIVE BytesValue(_)
BytesValue(b) ==
    IF b = <<>> THEN 0
    ELSE 256 * BytesValue(SubSeq(b, 1, Len(b) - 1)) + b[Len(b)]

RECURSIVE LeadingZeros(_)
LeadingZeros(b) ==
    IF b = <<>> \/ b[1] # 0 THEN 0 ELSE 1 + LeadingZeros(Tail(b))

RECURSIVE Digits58(_)
Digits58(n) ==
    IF n = 0 THEN <<>> ELSE Append(Digits58(n \div 58), B58Alphabet[(n % 58) + 1])

\* PublicKey.String() and Signature.String(): the base58 text of the bytes.
Base58Encode(b) ==
    [i \in 1..LeadingZeros(b) |-> B58Alphabet[1]] \o Digits58(BytesValue(b))

\* ------------------------------------------------------------------ keys
\* PrivateKey.PublicKey(): the trailing half of the private key bytes.
PublicKey(sk) == <<sk[2]>>

Ed25519Sign(sk, message) == [signer |-> PublicKey(sk), message |-> message]

Ed25519Verify(pk, message, sg) == sg.signer = pk /\ sg.message = message

\* ---------------------------------------------------------- transactions
\* system.NewTransferInstruction(lamports, from, to).Build(): the funding
\* account signs and is written, the recipient is written.
\* (NewTransferInstructionInSol: the amount taken in SOL instead of lamports.)
NewTransferInstructionInSol(lamports, from, to) ==
    [programID |-> SystemProgramID,
     accounts  |-> << [key |-> from, isSigner |-> TRUE,  isWritable |-> TRUE],
                      [key |-> to,   isSigner |-> FALSE, isWritable |-> TRUE] >>,
     data      |-> [instruction |-> "Transfer", lamports |-> lamports \div LamportsPerSOL]]

NewTransferInstruction(lamports, from, to) ==
    [programID |-> SystemProgramID,
     accounts  |-> << [key |-> from, isSigner |-> TRUE,  isWritable |-> TRUE],
                      [key |-> to,   isSigner |-> FALSE, isWritable |-> TRUE] >>,
     data      |-> [instruction |-> "Transfer", lamports |-> lamports]]

KeysOf(metas, signer) ==
    LET sel == SelectSeq(metas, LAMBDA m : m.isSigner = signer)
    IN  [i \in 1..Len(sel) |-> sel[i].key]

\* solana.NewTransaction(instructions, recentBlockHash, TransactionPayer(payer)):
\* fails on an empty instruction list; otherwise the message lists the payer
\* first, then the other signers, then the remaining accounts and programs,
\* each key once, and requires one signature per signer.
NewTransaction(instructions, blockhash, payer) ==
    IF instructions = <<>>
    THEN [err |-> "requires at-least one instruction to create a transaction", tx |-> Nil]
    ELSE LET metas    == Flatten([i \in 1..Len(instructions) |-> instructions[i].accounts])
             programs == [i \in 1..Len(instructions) |-> instructions[i].programID]
             signers  == Dedup(<<payer>> \o KeysOf(metas, TRUE))
             others   == SelectSeq(Dedup(KeysOf(metas, FALSE) \o programs),
                                   LAMBDA k : k \notin Range(signers))
         IN [err |-> Nil,
             tx  |-> [message |-> [accountKeys           |-> signers \o others,
                                   numRequiredSignatures |-> Len(signers),
                                   recentBlockhash       |-> blockhash,
                                   instructions          |-> instructions],
                      signatures |-> <<>>]]

\* The closure handed to tx.Sign: the private key for the sender's own
\* public key, nil for every other key.
KeyGetterAny(fromPrivateKey, key) == fromPrivateKey

KeyGetter(fromPrivateKey, key) ==
    IF key = PublicKey(fromPrivateKey) THEN fromPrivateKey ELSE NoBytes

\* tx.Sign(getter): asks the getter for the key of every required signer, in
\* message order; a nil answer is an error and nothing is signed.
TxSign(t, fromPrivateKey) ==
    LET n    == t.message.numRequiredSignatures
        keys == SubSeq(t.message.accountKeys, 1, n)
    IN IF \E i \in 1..n : KeyGetter(fromPrivateKey, keys[i]) = NoBytes
       THEN [err |-> "signer key not found", tx |-> t]
       ELSE [err |-> Nil,
             tx  |-> [t EXCEPT !.signatures =
                        [i \in 1..n |->
                           Ed25519Sign(KeyGetter(fromPrivateKey, keys[i]), t.message)]]]

\* ------------------------------------------------------- gateway replies
FetchReplies ==
    [err : {Nil}, blockhash : Blockhashes] \cup [err : {"rpc error"}, blockhash : {NoBytes}]

SendReplies ==
    [err : {Nil}, sig : Sigs] \cup [err : {"rpc error"}, sig : {NoBytes}]

SubscribeReplies == {[err |-> Nil], [err |-> "ws error"]}

RecvReplies ==
    [err : {Nil}, lamports : Balances] \cup [err : RecvErrors, lamports : {0}]

\* ----------------------------------------------------------------- logs
\* log.Fatalf: write the entry, then os.Exit(1).  Deferred calls do not run.
Fatalf(msg, err) ==
    /\ logOut' = Append(logOut, [fn |-> "Fatalf", msg |-> msg, err |-> err])
    /\ exited' = TRUE

\* ------------------------------------------------------------------ Init
Init ==
    /\ sender \in PrivKeys
    /\ receiverPubKey \in ReceiverKeys
    /\ amount \in Amounts
    /\ exited = FALSE
    /\ logOut = <<>>
    /\ stdout = <<>>
    /\ wpc = "notStarted"
    /\ wret = [returned |-> FALSE, values |-> <<>>]
    /\ recent = NoBytes
    /\ tx = Nil
    /\ rpcLog = <<>>
    /\ mpc = "notStarted"
    /\ sub = Nil
    /\ deferred = <<>>
    /\ wsLog = <<>>

\* main.go:127-134: print the sender's key, start the withdraw goroutine and
\* enter monitorDeposits on the sender's public key.
MainLaunch ==
    /\ ~exited
    /\ wpc = "notStarted" /\ mpc = "notStarted"
    /\ stdout' = Append(stdout, [line |-> "sender", account |-> Base58Encode(PublicKey(sender))])
    /\ wpc' = "fetch"
    /\ mpc' = "subscribe"
    /\ UNCHANGED <<args, exited, logOut, wret, recent, tx, rpcLog, sub, deferred, wsLog>>

\* -------------------------------------------------------------- withdraw
FetchCall(reply) ==
    [method |-> "GetRecentBlockhash", commitment |-> CommitmentFinalized, reply |-> reply]

\* main.go:33-36, with a retry in place of the fatal log.
WithdrawFetchRetry ==
    /\ ~exited
    /\ wpc = "fetch"
    /\ Len(rpcLog) < 3
    /\ \E reply \in FetchReplies :
         /\ rpcLog' = Append(rpcLog, FetchCall(reply))
         /\ IF reply.err # Nil
            THEN UNCHANGED <<wpc, recent, logOut, exited>>
            ELSE /\ recent' = reply.blockhash
                 /\ wpc' = "build"
                 /\ UNCHANGED <<logOut, exited>>
    /\ UNCHANGED <<args, stdout, wret, tx, mvars>>

\* main.go:33-36 without the check of err: the call goes on with the zero
\* blockhash of a failed fetch.
WithdrawFetchUnchecked ==
    /\ ~exited
    /\ wpc = "fetch"
    /\ \E reply \in FetchReplies :
         /\ rpcLog' = Append(rpcLog, FetchCall(reply))
         /\ recent' = reply.blockhash
         /\ wpc' = "build"
         /\ UNCHANGED <<logOut, exited>>
    /\ UNCHANGED <<args, stdout, wret, tx, mvars>>

\* main.go:33-36
WithdrawFetch ==
    /\ ~exited
    /\ wpc = "fetch"
    /\ \E reply \in FetchReplies :
         /\ rpcLog' = Append(rpcLog, FetchCall(reply))
         /\ IF reply.err # Nil
            THEN /\ Fatalf("fetch blockhash failed", reply.err)
                 /\ UNCHANGED <<wpc, recent>>
            ELSE /\ recent' = reply.blockhash
                 /\ wpc' = "build"
                 /\ UNCHANGED <<logOut, exited>>
    /\ UNCHANGED <<args, stdout, wret, tx, mvars>>

\* main.go:39-52
WithdrawBuild ==
    /\ ~exited
    /\ wpc = "build"
    /\ LET r == NewTransaction(
                   << NewTransferInstruction(amount, PublicKey(sender), receiverPubKey) >>,
                   recent,
                   PublicKey(sender))
       IN IF r.err # Nil
          THEN /\ Fatalf("create transaction failed", r.err)
               /\ UNCHANGED <<wpc, tx>>
          ELSE /\ tx' = r.tx
               /\ wpc' = "sign"
               /\ UNCHANGED <<logOut, exited>>
    /\ UNCHANGED <<args, stdout, wret, recent, rpcLog, mvars>>

\* main.go:55-65 with the private key zeroed once it has signed.
WithdrawSignWipesKey ==
    /\ ~exited
    /\ wpc = "sign"
    /\ LET r == TxSign(tx, sender)
       IN IF r.err # Nil
          THEN /\ Fatalf("sign transaction failed", r.err)
               /\ UNCHANGED <<wpc, tx, sender>>
          ELSE /\ tx' = r.tx
               /\ wpc' = "send"
               /\ sender' = <<0, 0>>
               /\ UNCHANGED <<logOut, exited>>
    /\ UNCHANGED <<receiverPubKey, amount, stdout, wret, recent, rpcLog, mvars>>

\* main.go:55-65
WithdrawSign ==
    /\ ~exited
    /\ wpc = "sign"
    /\ LET r == TxSign(tx, sender)
       IN IF r.err # Nil
          THEN /\ Fatalf("sign transaction failed", r.err)
               /\ UNCHANGED <<wpc, tx>>
          ELSE /\ tx' = r.tx
               /\ wpc' = "send"
               /\ UNCHANGED <<logOut, exited>>
    /\ UNCHANGED <<args, stdout, wret, recent, rpcLog, mvars>>

\* main.go:71-74 with SkipPreflight set.
SendCallSkipPreflight(t, reply) ==
    [method |-> "SendTransactionWithOpts", tx |-> t, skipPreflight |-> TRUE,
     preflightCommitment |-> CommitmentFinalized, reply |-> reply]

SendCall(t, reply) ==
    [method |-> "SendTransactionWithOpts", tx |-> t, skipPreflight |-> FALSE,
     preflightCommitment |-> CommitmentFinalized, reply |-> reply]

\* main.go:80: the success line carries sig.String().
PrintWithdrawOk(out, sg) ==
    Append(out, [line |-> "withdrawOk", signature |-> Base58Encode(sg)])

\* main.go:68-81 with the fatal message of the fetch step copied to line 77.
WithdrawSendFetchMessage ==
    /\ ~exited
    /\ wpc = "send"
    /\ \E reply \in SendReplies :
         /\ rpcLog' = Append(rpcLog, SendCall(tx, reply))
         /\ IF reply.err # Nil
            THEN /\ Fatalf("fetch blockhash failed", reply.err)
                 /\ UNCHANGED <<wpc, wret, stdout>>
            ELSE /\ stdout' = PrintWithdrawOk(stdout, reply.sig)
                 /\ wpc' = "done"
                 /\ wret' = [returned |-> TRUE, values |-> <<>>]
                 /\ UNCHANGED <<logOut, exited>>
    /\ UNCHANGED <<args, recent, tx, mvars>>

\* main.go:68-81: submit, print the signature, return (no result values).
WithdrawSend ==
    /\ ~exited
    /\ wpc = "send"
    /\ \E reply \in SendReplies :
         /\ rpcLog' = Append(rpcLog, SendCall(tx, reply))
         /\ IF reply.err # Nil
            THEN /\ Fatalf("send transaction failed", reply.err)
                 /\ UNCHANGED <<wpc, wret, stdout>>
            ELSE /\ stdout' = PrintWithdrawOk(stdout, reply.sig)
                 /\ wpc' = "done"
                 /\ wret' = [returned |-> TRUE, values |-> <<>>]
                 /\ UNCHANGED <<logOut, exited>>
    /\ UNCHANGED <<args, recent, tx, mvars>>

\* ------------------------------------------------------- monitorDeposits
\* float64(lamports) / LamportsPerSOL printed with %.9f: the whole part and
\* the nine decimals (exact for balances below 2^52).
FormatSol(lamports) ==
    [whole |-> lamports \div LamportsPerSOL, decimals |-> lamports % LamportsPerSOL]

\* main.go:107 with the new line put before the earlier ones.
PrintUpdateFirst(out, account, lamports) ==
    << [line |-> "update", account |-> Base58Encode(account), sol |-> FormatSol(lamports)] >> \o out

\* main.go:105-107: one line per account update, holding the account's text
\* and its balance in SOL.
PrintUpdate(out, account, lamports) ==
    Append(out, [line |-> "update", account |-> Base58Encode(account),
                 sol |-> FormatSol(lamports)])

RecvCount == Len(SelectSeq(wsLog, LAMBDA c : c.method = "Recv"))

\* main.go:86-95 without the check of err: the loop is entered whatever the
\* subscription request answered.
MonitorSubscribeUnchecked ==
    /\ ~exited
    /\ mpc = "subscribe"
    /\ \E reply \in SubscribeReplies :
         /\ wsLog' = Append(wsLog, [method |-> "AccountSubscribe", account |-> PublicKey(sender),
                                    commitment |-> CommitmentFinalized, reply |-> reply])
         /\ sub' = "open"
         /\ deferred' = Append(deferred, "sub.Unsubscribe")
         /\ stdout' = Append(stdout, [line |-> "monitorStart",
                                      account |-> Base58Encode(PublicKey(sender))])
         /\ mpc' = "recv"
         /\ UNCHANGED <<logOut, exited>>
    /\ UNCHANGED <<args, wvars>>

\* main.go:86-95
MonitorSubscribe ==
    /\ ~exited
    /\ mpc = "subscribe"
    /\ \E reply \in SubscribeReplies :
         /\ wsLog' = Append(wsLog, [method |-> "AccountSubscribe", account |-> PublicKey(sender),
                                    commitment |-> CommitmentFinalized, reply |-> reply])
         /\ IF reply.err # Nil
            THEN /\ Fatalf("subscribe account failed", reply.err)
                 /\ UNCHANGED <<mpc, sub, deferred, stdout>>
            ELSE /\ sub' = "open"
                 /\ deferred' = Append(deferred, "sub.Unsubscribe")
                 /\ stdout' = Append(stdout, [line |-> "monitorStart",
                                              account |-> Base58Encode(PublicKey(sender))])
                 /\ mpc' = "recv"
                 /\ UNCHANGED <<logOut, exited>>
    /\ UNCHANGED <<args, wvars>>

\* main.go:99-102 with the loop left on an error: the function returns and
\* its deferred Unsubscribe runs.
OnRecvErrorReturn(err) ==
    /\ logOut' = Append(logOut, [fn |-> "Printf", msg |-> "receive failed", err |-> err])
    /\ mpc' = "returned"
    /\ sub' = "unsubscribed"
    /\ UNCHANGED <<stdout, exited>>

\* main.go:99-102 with log.Fatalf, as at every other error of the file.
OnRecvErrorFatal(err) ==
    /\ Fatalf("receive failed", err)
    /\ UNCHANGED <<stdout, mpc, sub>>

\* main.go:99-102: log the error and go on with the next Recv.
OnRecvError(err) ==
    /\ logOut' = Append(logOut, [fn |-> "Printf", msg |-> "receive failed", err |-> err])
    /\ UNCHANGED <<stdout, exited, mpc, sub>>

\* main.go:97-108 with a new subscription requested after a receive error.
MonitorRecvResubscribes ==
    /\ ~exited
    /\ mpc = "recv"
    /\ RecvCount < MaxRecv
    /\ \E reply \in RecvReplies :
         IF reply.err # Nil
         THEN /\ wsLog' = wsLog \o
                    << [method |-> "Recv", reply |-> reply],
                       [method |-> "AccountSubscribe", account |-> PublicKey(sender),
                        commitment |-> CommitmentFinalized, reply |-> [err |-> Nil]] >>
              /\ OnRecvError(reply.err)
         ELSE /\ wsLog' = Append(wsLog, [method |-> "Recv", reply |-> reply])
              /\ stdout' = PrintUpdate(stdout, PublicKey(sender), reply.lamports)
              /\ UNCHANGED <<logOut, exited, mpc, sub>>
    /\ UNCHANGED <<args, wvars, deferred>>

\* main.go:97-108: one turn of the receive loop.
MonitorRecv ==
    /\ ~exited
    /\ mpc = "recv"
    /\ RecvCount < MaxRecv
    /\ \E reply \in RecvReplies :
         /\ wsLog' = Append(wsLog, [method |-> "Recv", reply |-> reply])
         /\ IF reply.err # Nil
            THEN OnRecvError(reply.err)
            ELSE /\ stdout' = PrintUpdate(stdout, PublicKey(sender), reply.lamports)
                 /\ UNCHANGED <<logOut, exited, mpc, sub>>
    /\ UNCHANGED <<args, wvars, deferred>>

\* ------------------------------------------------------------------ Next
Next ==
    \/ MainLaunch
    \/ WithdrawFetch
    \/ WithdrawBuild
    \/ WithdrawSign
    \/ WithdrawSend
    \/ MonitorSubscribe
    \/ MonitorRecv

Spec == Init /\ [][Next]_vars

\* ================================================================ claims
FetchCalls == SelectSeq(rpcLog, LAMBDA c : c.method = "GetRecentBlockhash")
SendCalls  == SelectSeq(rpcLog, LAMBDA c : c.method = "SendTransactionWithOpts")
RecvOk     == SelectSeq(wsLog, LAMBDA c : c.method = "Recv" /\ c.reply.err = Nil)
RecvFailed == SelectSeq(wsLog, LAMBDA c : c.method = "Recv" /\ c.reply.err # Nil)
UnsubscribeCalls == SelectSeq(wsLog, LAMBDA c : c.method = "Unsubscribe")
Updates    == SelectSeq(stdout, LAMBDA l : l.line = "update")
WithdrawOkLines == SelectSeq(stdout, LAMBDA l : l.line = "withdrawOk")
Reports    == SelectSeq(logOut, LAMBDA e : e.fn = "Printf")

WithdrawFatalMsgs ==
    {"fetch blockhash failed", "create transaction failed",
     "sign transaction failed", "send transaction failed"}

\* A step of withdraw has failed.
WithdrawFailed ==
    \E i \in 1..Len(logOut) : logOut[i].fn = "Fatalf" /\ logOut[i].msg \in WithdrawFatalMsgs

\* The monitor is in its receive loop, with its subscription, in a live process.
MonitorStreaming == mpc = "recv" /\ sub = "open" /\ ~exited

\* The transaction of the one submission is the transfer asked for: one
\* transfer instruction of `amount` from the sender to the receiver, the
\* sender as payer, one signature, made by the sender over the message.
SubmittedAsRequested ==
    /\ Len(SendCalls) = 1
    /\ LET t   == SendCalls[1].tx
           ins == t.message.instructions
       IN /\ Len(ins) = 1
          /\ ins[1].programID = SystemProgramID
          /\ ins[1].data = [instruction |-> "Transfer", lamports |-> amount]
          /\ ins[1].accounts[1].key = PublicKey(sender)
          /\ ins[1].accounts[2].key = receiverPubKey
          /\ t.message.accountKeys[1] = PublicKey(sender)
          /\ Len(t.signatures) = 1
          /\ Ed25519Verify(PublicKey(sender), t.message, t.signatures[1])

C2_FetchErrorReturnedNoSubmission ==
    (Len(FetchCalls) > 0 /\ FetchCalls[1].reply.err # Nil) =>
        /\ wret = [returned |-> TRUE, values |-> <<"ReferenceUnavailable">>]
        /\ Len(SendCalls) = 0

\* C3 (as stated): a failure of any withdrawal step is returned to the caller
\* of the withdrawal and leaves a streaming monitor streaming.
C3_WithdrawFailureLeavesMonitorStreaming ==
    (WithdrawFailed /\ mpc = "recv") => (wret.returned /\ MonitorStreaming)

C5_MalformedNotificationSkipped ==
    (Len(RecvFailed) = 1 /\ RecvFailed[1].reply.err = "decode") =>
        /\ Len(Updates) = Len(RecvOk)
        /\ Len(Reports) = 1
        /\ Reports[1].err = "decode"
        /\ mpc = "recv"
        /\ sub = "open"
        /\ Len(UnsubscribeCalls) = 0
        /\ \A i \in 1..Len(logOut) :
             logOut[i].fn = "Fatalf" => logOut[i].msg \in WithdrawFatalMsgs

C5_Witness ==
    /\ RecvCount = 3
    /\ wsLog[3].reply.err = "decode"
    /\ Len(RecvOk) = 2
    /\ Len(Updates) = 2
    /\ Len(Reports) = 1

\* C6 (as stated): when the monitor is stopped while it waits in Recv, its
\* run has returned and the subscription has been closed.  The one event
\* that stops the monitor is the end of the process.
C6_StoppedInRecvReturnsAndCloses ==
    (exited /\ mpc = "recv") => (sub = "unsubscribed" /\ deferred = <<>>)

\* C7 (as stated): once the monitor has been stopped, from whatever state,
\* the subscription it held has been released exactly once.
C7_StoppedReleasesExactlyOnce ==
    (exited /\ sub # Nil) => Len(UnsubscribeCalls) = 1

\* C8 (as stated): a withdrawal of amount 0 never reaches the submission call.
C8_ZeroAmountNeverSubmitted ==
    amount = 0 => Len(SendCalls) = 0

\* C9: one call of withdraw makes at most one block-reference fetch and at
\* most one submission call, whatever step fails.
C9_NoInternalRetry ==
    /\ Len(FetchCalls) <= 1
    /\ Len(SendCalls) <= 1

C9_Witness ==
    /\ exited
    /\ logOut[Len(logOut)].msg = "send transaction failed"
    /\ Len(FetchCalls) = 1
    /\ Len(SendCalls) = 1

\* C10: the key getter hands out private material only for the payer's own
\* key; signing a transaction that requires any other key fails and signs
\* nothing; every transaction given to the gateway carries the signature of
\* each required signer, all made with the payer's key; and a failed signing
\* is followed by no submission.
C10_SigningOnlyWithPayerKey ==
    /\ \A k \in PubKeys : KeyGetter(sender, k) # NoBytes => k = PublicKey(sender)
    /\ \A k \in PubKeys \ {PublicKey(sender)} :
         LET built == NewTransaction(
                         << NewTransferInstruction(amount, k, receiverPubKey) >>,
                         recent, PublicKey(sender))
             r     == TxSign(built.tx, sender)
         IN r.err # Nil /\ r.tx.signatures = <<>>
    /\ \A i \in 1..Len(SendCalls) :
         LET t == SendCalls[i].tx
         IN /\ t.message.accountKeys[1] = PublicKey(sender)
            /\ Len(t.signatures) = t.message.numRequiredSignatures
            /\ \A j \in 1..Len(t.signatures) :
                 /\ Ed25519Verify(t.message.accountKeys[j], t.message, t.signatures[j])
                 /\ t.signatures[j].signer = PublicKey(sender)
    /\ (\E i \in 1..Len(logOut) : logOut[i].msg = "sign transaction failed")
         => Len(SendCalls) = 0

C10_Witness ==
    /\ Len(SendCalls) = 1
    /\ Len(SendCalls[1].tx.signatures) = 1
    /\ receiverPubKey # PublicKey(sender)

\* C11: after any number of receive errors the monitor has reported each of
\* them once, is still in its receive loop holding the subscription it has
\* never released, no fatal log entry comes from the monitor, the next Recv
\* is still made while the process lives, and every valid notification,
\* those after the errors included, has its update line.
C11_ReceiveErrorsLeaveMonitorStreaming ==
    Len(RecvFailed) > 0 =>
        /\ Len(Reports) = Len(RecvFailed)
        /\ \A i \in 1..Len(Reports) : Reports[i].err = RecvFailed[i].reply.err
        /\ mpc = "recv"
        /\ sub = "open"
        /\ Len(UnsubscribeCalls) = 0
        /\ \A i \in 1..Len(logOut) :
             logOut[i].fn = "Fatalf" => logOut[i].msg \in WithdrawFatalMsgs
        /\ (~exited /\ RecvCount < MaxRecv) => ENABLED MonitorRecv
        /\ Len(Updates) = Len(RecvOk)

C11_Witness ==
    /\ RecvCount = 3
    /\ wsLog[2].reply.err = "transport"
    /\ wsLog[3].reply.err = "transport"
    /\ wsLog[4].reply.err = Nil
    /\ wsLog[4].reply.lamports = 100000000
    /\ Len(Updates) = 1
    /\ MonitorStreaming

WithdrawFatals ==
    SelectSeq(logOut, LAMBDA e : e.fn = "Fatalf" /\ e.msg \in WithdrawFatalMsgs)

\* The failure each step of withdraw reports: ReferenceUnavailable,
\* MalformedTransaction, SigningKeyMismatch, SubmissionRejected.
StepFailure ==
    [fetch |-> "fetch blockhash failed", build |-> "create transaction failed",
     sign  |-> "sign transaction failed", send  |-> "send transaction failed"]

StepsInOrder ==
    /\ Len(rpcLog) <= 2
    /\ Len(rpcLog) >= 1 => rpcLog[1].method = "GetRecentBlockhash"
    /\ wpc \in {"notStarted", "fetch"} =>
         /\ recent = NoBytes
         /\ Len(SendCalls) = 0
    /\ wpc \in {"build", "sign", "send", "done"} =>
         /\ Len(FetchCalls) = 1
         /\ FetchCalls[1].reply.err = Nil
         /\ recent = FetchCalls[1].reply.blockhash
         /\ recent \in Blockhashes
    /\ wpc \in {"build", "sign"} => Len(rpcLog) = 1
    /\ wpc = "sign" =>
         /\ tx.signatures = <<>>
         /\ tx.message.recentBlockhash = recent
    /\ wpc \in {"send", "done"} =>
         /\ Len(tx.signatures) = tx.message.numRequiredSignatures
         /\ Len(tx.signatures) >= 1
         /\ tx.message.recentBlockhash = recent
    /\ \A i \in 1..Len(rpcLog) :
         rpcLog[i].method = "SendTransactionWithOpts" =>
            /\ i = 2
            /\ wpc \in {"send", "done"}
            /\ rpcLog[i].tx = tx
            /\ rpcLog[i].tx.message.recentBlockhash = rpcLog[1].reply.blockhash
    /\ wpc = "done" => Len(SendCalls) = 1

\* C13: the steps of withdraw run in the order fetch, build, sign, submit:
\* a submission is made only after the fetch, the build and the signing of
\* the same call have succeeded, with the transaction built on the blockhash
\* fetched in that call; and once a step has failed, no step of the call
\* runs any more (its position, blockhash, transaction and calls stay).
C13_StepsInOrderFailureStops ==
    /\ []StepsInOrder
    /\ [][WithdrawFailed => UNCHANGED wvars]_vars
    /\ [][wpc' # wpc => <<wpc, wpc'>> \in
            {<<"notStarted", "fetch">>, <<"fetch", "build">>, <<"build", "sign">>,
             <<"sign", "send">>, <<"send", "done">>}]_vars

C13_Witness ==
    /\ wpc = "done"
    /\ Len(rpcLog) = 2
    /\ rpcLog[1].reply.blockhash = <<2>>
    /\ rpcLog[2].tx.message.recentBlockhash = <<2>>
    /\ Len(rpcLog[2].tx.signatures) = 1

SubscribeCalls == SelectSeq(wsLog, LAMBDA c : c.method = "AccountSubscribe")

\* The monitor's position against its calls: Idle ("notStarted") and
\* Subscribing ("subscribe") hold no subscription, have made no Recv and
\* printed no update; Streaming ("recv") is exactly the acknowledged
\* subscription request; every Recv comes after that acknowledgement; a
\* failed request leaves the monitor at the request, with nothing received
\* or printed.
MonitorPhases ==
    /\ mpc \in {"notStarted", "subscribe", "recv"}
    /\ Len(wsLog) >= 1 => wsLog[1].method = "AccountSubscribe"
    /\ mpc = "notStarted" => Len(wsLog) = 0
    /\ mpc \in {"notStarted", "subscribe"} =>
         /\ sub = Nil
         /\ RecvCount = 0
         /\ Len(Updates) = 0
    /\ (mpc = "recv") <=> (Len(wsLog) >= 1 /\ wsLog[1].reply.err = Nil)
    /\ \A i \in 1..Len(wsLog) :
         wsLog[i].method = "Recv" => (i > 1 /\ wsLog[1].reply.err = Nil /\ sub = "open")
    /\ (Len(wsLog) >= 1 /\ wsLog[1].reply.err # Nil) =>
         /\ mpc = "subscribe"
         /\ Len(wsLog) = 1
         /\ Len(Updates) = 0
         /\ exited

\* C14: the monitor moves Idle -> Subscribing -> Streaming and no other way;
\* no Recv is made and no update is printed before the subscription request
\* has been acknowledged; a failed subscription request never leads to
\* Streaming and to no update.
C14_SubscribeBeforeStreaming ==
    /\ []MonitorPhases
    /\ [][mpc' # mpc => <<mpc, mpc'>> \in
            {<<"notStarted", "subscribe">>, <<"subscribe", "recv">>}]_vars
    /\ [][Len(Updates') > Len(Updates) => (mpc = "recv" /\ sub = "open")]_vars

C14_Witness ==
    /\ Len(wsLog) = 1
    /\ wsLog[1].reply.err # Nil
    /\ mpc = "subscribe"
    /\ exited

\* A step of the running withdraw: it moves on or makes a gateway call.
WithdrawStep == (wpc # "notStarted" /\ wpc' # wpc) \/ rpcLog' # rpcLog

\* A step of the running monitor: each one makes a call on the subscription
\* client.
MonitorStep == wsLog' # wsLog

\* What the monitor has printed: its start line and its update lines.
MonitorLines == SelectSeq(stdout, LAMBDA l : l.line \in {"monitorStart", "update"})

\* C15: a step of withdraw leaves the monitor's state unchanged (position,
\* subscription, deferred calls, calls made, lines printed); a step of the
\* monitor leaves withdraw's state unchanged (position, blockhash,
\* transaction, calls made, result, success line); and no step at all
\* changes the keypair, the receiver key or the amount.
C15_NoSharedMutableState ==
    /\ [][WithdrawStep => (mvars' = mvars /\ MonitorLines' = MonitorLines)]_vars
    /\ [][MonitorStep => (wvars' = wvars /\ WithdrawOkLines' = WithdrawOkLines)]_vars
    /\ [][args' = args]_vars

C15_Witness ==
    /\ wpc = "done"
    /\ RecvCount = 2
    /\ Len(Updates) = 2
    /\ sender = <<12, 200>>

\* C16: every block-hash fetch and every account subscription is made at the
\* "finalized" commitment level, and every submission is made with preflight
\* enabled (SkipPreflight false) at the "finalized" preflight commitment.
C16_FinalizedAndPreflight ==
    /\ \A i \in 1..Len(rpcLog) :
         /\ rpcLog[i].method = "GetRecentBlockhash" => rpcLog[i].commitment = "finalized"
         /\ rpcLog[i].method = "SendTransactionWithOpts" =>
              /\ rpcLog[i].skipPreflight = FALSE
              /\ rpcLog[i].preflightCommitment = "finalized"
    /\ \A i \in 1..Len(wsLog) :
         wsLog[i].method = "AccountSubscribe" => wsLog[i].commitment = "finalized"

C16_Witness ==
    /\ Len(FetchCalls) = 1
    /\ Len(SendCalls) = 1
    /\ Len(SubscribeCalls) = 1
    /\ SendCalls[1].reply.err = Nil

\* The calls of one run of monitorDeposits: the subscription request first,
\* and after it only Recv calls.
OneSubscription ==
    /\ Len(SubscribeCalls) <= 1
    /\ Len(UnsubscribeCalls) = 0
    /\ \A i \in 1..Len(wsLog) :
         IF i = 1 THEN wsLog[i].method = "AccountSubscribe"
                  ELSE wsLog[i].method = "Recv"
    /\ wsLog # <<>> => wsLog[1].account = PublicKey(sender)
    /\ mpc = "recv" =>
         /\ Len(SubscribeCalls) = 1
         /\ sub = "open"
         /\ deferred = << "sub.Unsubscribe" >>

\* C17: within one run of monitorDeposits the account subscription is
\* requested exactly once; every Recv, those after a receive error included,
\* is made on the handle that request returned, which is assigned once and
\* never replaced; and the handle is never unsubscribed while the loop runs.
C17_SubscribedOnceNeverReplaced ==
    /\ []OneSubscription
    /\ [][sub' # sub => (sub = Nil /\ sub' = "open" /\ mpc = "subscribe")]_vars
    /\ [][RecvCount' > RecvCount => (sub = "open" /\ sub' = "open")]_vars

C17_Witness ==
    /\ RecvCount = 3
    /\ wsLog[2].reply.err = "decode"
    /\ wsLog[3].reply.err = "transport"
    /\ wsLog[4].reply.err = Nil
    /\ wsLog[4].reply.lamports = 0
    /\ sub = "open"

====
